---- MODULE Spec2Model ----
(***************************************************************************)
(* DeskMixer controller firmware: the sampling loop, the press detector,   *)
(* the telemetry timer and the serial line protocol of the two sketches of *)
(* the repository,                                                         *)
(*     EXT  the sketch with debouncing and GET_CONFIG (unnamed/part_000)   *)
(*     INO  arduino/DeskMixer/DeskMixer.ino                                *)
(* Both sketches are run side by side on the same pins, the same serial    *)
(* input and the same clock; every variable of a sketch is a function of   *)
(* the sketch.                                                             *)
(***************************************************************************)
EXTENDS Integers, Sequences, FiniteSets, TLC

EXT == "part_000"
INO == "DeskMixer.ino"
Firmware == {EXT, INO}

(***************************************************************************)
(* Program constants (the same in both sketches where both define them).   *)
(* NUM_SLIDERS, the number of analog channels the sketch is built with, is *)
(* fixed when the run starts: 4 in the repository, 0 in the build without  *)
(* analog channels.                                                        *)
(***************************************************************************)
VARIABLE NUM_SLIDERS
NUM_BUTTONS == 6
SCREEN_ACTIVE == 1
SEND_INTERVAL_MS == 10
DEBOUNCE_MS == 10
STARTUP_DELAY_MS == 1000
HANDSHAKE_REQUEST == "DeskMixer controller request"
HANDSHAKE_RESPONSE == "DeskMixer Controller Ready"
CONFIG_REQUEST == "GET_CONFIG"
\* a response with the two channel counts in each other's place
configResponseSwapped ==
    "CONFIG:SLIDERS:" \o ToString(NUM_BUTTONS) \o ":BUTTONS:" \o ToString(NUM_SLIDERS)
        \o ":SCREEN:" \o ToString(SCREEN_ACTIVE)

CONFIG_RESPONSE ==
    "CONFIG:SLIDERS:" \o ToString(NUM_SLIDERS) \o ":BUTTONS:" \o ToString(NUM_BUTTONS)
        \o ":SCREEN:" \o ToString(SCREEN_ACTIVE)

Sliders == 0..(NUM_SLIDERS - 1)
Buttons == 0..(NUM_BUTTONS - 1)

(***************************************************************************)
(* unsigned long: a 32-bit value kept as two 16-bit limbs, so that the     *)
(* arithmetic is modulo 2^32 and every intermediate stays a small integer. *)
(***************************************************************************)
Limb == 65536
U32(n) == [hi |-> (n \div Limb) % Limb, lo |-> n % Limb]
Add32(a, d) ==
    LET s == a.lo + d
    IN  [hi |-> (a.hi + (s \div Limb)) % Limb, lo |-> s % Limb]
Sub32(a, b) ==
    LET l == a.lo - b.lo
        borrow == IF l < 0 THEN 1 ELSE 0
    IN  [hi |-> (a.hi - b.hi - borrow + Limb) % Limb, lo |-> (l + Limb) % Limb]
\* x >= n and x > n for an unsigned long x and a constant 0 <= n < 2^16
Ge32(x, n) == x.hi > 0 \/ x.lo >= n
Gt32(x, n) == x.hi > 0 \/ x.lo > n

(***************************************************************************)
(* Bounds of the model and the inputs of the environment.                  *)
(***************************************************************************)
\* The clock is followed for MaxElapsed ms after the end of setup() in the
\* run that operates one button, for ShortSpan ms in the runs with serial
\* input only, for BriefSpan ms in the runs that combine inputs.
MaxElapsed == 22
ShortSpan == 10
BriefSpan == 5
\* The loop counter iter saturates at MaxIter.
MaxIter == 2
\* A run that continues across the wrap of millis() starts WrapLead ms before it.
WrapLead == 6
\* Serial.available(): at most MaxAvailable bytes are waiting when an
\* iteration starts.
MaxAvailable == 40
\* Time that can pass between two consecutive readings of millis().
Deltas == {0, 5, 10, 11}
\* Values analogRead() returns for the four sliders, by slider.
AnalogSamples ==
    { [i \in Sliders |-> <<200, 800, 0, 1023>>[i + 1]],
      [i \in Sliders |-> <<512, 1023, 7, 0>>[i + 1]] }

(***************************************************************************)
(* Serial input: a byte is a one-character string.  The host's bytes carry *)
(* a tag the firmware never reads: the byte that ends a handshake request  *)
(* line is tagged "hs", the one that ends a GET_CONFIG line "cfg", the     *)
(* last byte of the round trip "rt", the one that ends a line that is no   *)
(* request "bad", the one that ends a line that is nearly a request "near".*)
(***************************************************************************)
CR == "\r"
LF == "\n"
Plain(cs) == [k \in 1..Len(cs) |-> [c |-> cs[k], t |-> ""]]
Ended(cs, term, tag) ==
    Plain(cs) \o <<[c |-> Head(term), t |-> tag]>> \o Plain(Tail(term))
HsBytes ==
    << "D", "e", "s", "k", "M", "i", "x", "e", "r", " ",
       "c", "o", "n", "t", "r", "o", "l", "l", "e", "r", " ",
       "r", "e", "q", "u", "e", "s", "t" >>
CfgBytes == << "G", "E", "T", "_", "C", "O", "N", "F", "I", "G" >>
\* the request of the spec's round trip: the request, CR LF, then LF
TapeRoundTrip == Ended(HsBytes, <<CR, LF>>, "hs") \o <<[c |-> LF, t |-> "rt"]>>
\* whitespace around the request, a lone LF, then an unknown line ended by CR
TapeHandshake ==
    Ended(<<" ", "\t">> \o HsBytes \o <<" ">>, <<LF>>, "hs") \o Ended(<<"x">>, <<CR>>, "")
TapeConfig == Ended(CfgBytes, <<LF>>, "cfg")
\* a whitespace-only line, an unknown line, then the two requests
TapeUnknown ==
    Ended(<<" ">>, <<LF>>, "bad") \o Ended(<<"x">>, <<CR>>, "bad")
        \o Ended(HsBytes, <<LF>>, "hs") \o Ended(CfgBytes, <<LF>>, "cfg")
\* the requests in another letter case, with a second space or a space
\* inside, and with one more character
TapeNearMissHandshake ==
    Ended(<<"d">> \o Tail(HsBytes), <<LF>>, "near")
        \o Ended(SubSeq(HsBytes, 1, 10) \o <<" ">> \o SubSeq(HsBytes, 11, 28), <<LF>>, "near")
        \o Ended(HsBytes \o <<"!">>, <<LF>>, "near")
TapeNearMissConfig ==
    Ended(SubSeq(CfgBytes, 1, 4) \o <<"c", "o", "n", "f", "i", "g">>, <<LF>>, "near")
        \o Ended(SubSeq(CfgBytes, 1, 4) \o <<" ">> \o SubSeq(CfgBytes, 5, 10), <<LF>>, "near")
        \o Ended(<<"!">> \o CfgBytes, <<LF>>, "near")
\* By run: what the host sends, which buttons are operated, and for how many
\* ms after setup() the clock is followed.
Scenarios ==
    { [tape |-> TapeRoundTrip, wired |-> {}, span |-> ShortSpan],
      [tape |-> TapeHandshake, wired |-> {}, span |-> ShortSpan],
      [tape |-> TapeUnknown, wired |-> {}, span |-> BriefSpan],
      [tape |-> TapeNearMissHandshake, wired |-> {}, span |-> BriefSpan],
      [tape |-> TapeNearMissConfig, wired |-> {}, span |-> BriefSpan],
      [tape |-> TapeConfig, wired |-> {2}, span |-> BriefSpan],
      [tape |-> <<>>, wired |-> {2}, span |-> MaxElapsed],
      [tape |-> <<>>, wired |-> {2, 3}, span |-> BriefSpan] }
\* The runs that are followed without end.
LiveScenarios ==
    { [tape |-> Ended(<<"x">>, <<CR>>, "bad") \o TapeConfig, wired |-> {}, span |-> BriefSpan],
      [tape |-> <<>>, wired |-> {2}, span |-> BriefSpan] }
\* The runs of the build without analog channels.
NoSliderScenarios ==
    { [tape |-> TapeConfig, wired |-> {2}, span |-> BriefSpan] }

VARIABLES
    pc,                     \* the next step of setup()/loop()
    clock,                  \* the last value millis() returned
    horizon,                \* the clock value at which the model stops time
    rx,                     \* the host's bytes that have not arrived yet
    wired,                  \* the buttons that are operated in this run
    inputBuffer,            \* per sketch: the line being received
    analogSliderValues,     \* per sketch: the last analog readings
    buttonValues,           \* per sketch: the last button readings
    previousButtonValues,   \* per sketch: the readings of the pass before
    lastButtonChange,       \* EXT: the time of the last accepted press
    lastSendTime,           \* per sketch: the time of the last telemetry
    out,                    \* per sketch: the lines printed in this iteration
    iter,                   \* the number of loop() calls begun (saturating)
    wireHead,               \* per sketch: the first line ever printed
    hsSeen,                 \* the handshake request lines the host completed
    unknownSeen,            \* the lines that are no request the host completed
    hsSent,                 \* per sketch: the handshake responses of loop()
    pressed,                \* by button: sampled pressed in this iteration
    pressedBefore,          \* by button: sampled pressed in the iteration before
    lastPressAt,            \* per sketch, by button: when its last press line was printed
    runPresses,             \* per sketch, by button: press lines of the current pressed run
    lastTelemetryAt,        \* per sketch: when the last telemetry line was printed
    sinceTelemetry,         \* per sketch: at the timer check of this iteration, the
                            \* time since the last telemetry line
    arrivedTags,            \* the tags of the bytes read in this iteration
    sampled,                \* what analogRead() returned in this iteration, by slider
    uptime,                 \* the ms that have passed since the first state of the run
    sentAtUptime,           \* per sketch: uptime at its last telemetry line, -1: none
    pressAtUptime,          \* per sketch, by button: uptime at its last press line, -1: none
    pending,                \* the bytes the host has sent of the line it has not ended
    shadowLastSendTime,     \* per sketch: lastSendTime of a second run that has the
                            \* same clock and the other analog readings
    shadowSent              \* per sketch: the lines the timer check of the second
                            \* run printed in this iteration

vars ==
    << NUM_SLIDERS, pc, clock, horizon, rx, wired, inputBuffer, analogSliderValues,
       buttonValues, previousButtonValues, lastButtonChange, lastSendTime,
       out, iter, wireHead, hsSeen, unknownSeen, hsSent, pressed, pressedBefore, lastPressAt,
       runPresses, lastTelemetryAt, sinceTelemetry, arrivedTags, sampled,
       uptime, sentAtUptime, pressAtUptime, pending, shadowLastSendTime, shadowSent >>

\* the variables that only record what happened
history == << pressed, pressedBefore, lastPressAt, runPresses, lastTelemetryAt >>
Tags(bytes) == 
    LET tagged == SelectSeq(bytes, LAMBDA b : b.t # "")
    IN  [k \in 1..Len(tagged) |-> tagged[k].t]

(***************************************************************************)
(* String: trim() and the comparison with a literal.                       *)
(***************************************************************************)
isspace(c) == c \in {" ", "\t", "\n", "\r", "\f"}

RECURSIVE trimLeft(_)
trimLeft(s) == IF s # <<>> /\ isspace(Head(s)) THEN trimLeft(Tail(s)) ELSE s

RECURSIVE trimRight(_)
trimRight(s) ==
    IF s # <<>> /\ isspace(s[Len(s)]) THEN trimRight(SubSeq(s, 1, Len(s) - 1)) ELSE s

\* a trim() that leaves the trailing whitespace
trimLeading(s) == trimLeft(s)

trim(s) == trimRight(trimLeft(s))

\* the content of a String, as the literal it is compared with
RECURSIVE Str(_)
Str(s) == IF s = <<>> THEN "" ELSE Head(s) \o Str(Tail(s))

(***************************************************************************)
(* processSerialCommand: the lines it prints.                              *)
(***************************************************************************)
\* a processSerialCommand() that reports the lines it does not know
processSerialCommandReports(command) ==
    LET trimmed == Str(trim(command))
    IN  IF trimmed = HANDSHAKE_REQUEST THEN <<HANDSHAKE_RESPONSE>>
        ELSE IF trimmed = CONFIG_REQUEST THEN <<CONFIG_RESPONSE>>
        ELSE <<"ERROR">>

\* a processSerialCommand() that compares without regard to letter case
toUpper(c) ==
    LET lower == << "a", "b", "c", "d", "e", "f", "g", "h", "i", "j", "k", "l", "m",
                    "n", "o", "p", "q", "r", "s", "t", "u", "v", "w", "x", "y", "z" >>
        upper == << "A", "B", "C", "D", "E", "F", "G", "H", "I", "J", "K", "L", "M",
                    "N", "O", "P", "Q", "R", "S", "T", "U", "V", "W", "X", "Y", "Z" >>
    IN  IF \E k \in 1..Len(lower) : lower[k] = c
        THEN upper[CHOOSE k \in 1..Len(lower) : lower[k] = c] ELSE c
equalsIgnoreCase(a, b) ==
    Len(a) = Len(b) /\ \A k \in 1..Len(a) : toUpper(a[k]) = toUpper(b[k])
processSerialCommandAnyCase(command) ==
    LET trimmed == trim(command)
    IN  IF equalsIgnoreCase(trimmed, HsBytes) THEN <<HANDSHAKE_RESPONSE>>
        ELSE IF equalsIgnoreCase(trimmed, CfgBytes) THEN <<CONFIG_RESPONSE>>
        ELSE <<>>

processSerialCommand(command) ==
    LET trimmed == Str(trim(command))
    IN  IF trimmed = HANDSHAKE_REQUEST THEN <<HANDSHAKE_RESPONSE>>
        ELSE IF trimmed = CONFIG_REQUEST THEN <<CONFIG_RESPONSE>>
        ELSE <<>>

processSerialCommandIno(command) ==
    LET trimmed == Str(trim(command))
    IN  IF trimmed = HANDSHAKE_REQUEST THEN <<HANDSHAKE_RESPONSE>> ELSE <<>>

(***************************************************************************)
(* checkSerialInput: the bytes that are available are read one by one;     *)
(* the result is the new inputBuffer and the lines printed.                *)
(***************************************************************************)
\* a checkSerialInput() that does not clear the buffer after the dispatch
RECURSIVE checkSerialInputKeeps(_, _, _)
checkSerialInputKeeps(buffer, available, lines) ==
    IF available = <<>> THEN [inputBuffer |-> buffer, lines |-> lines]
    ELSE LET inChar == Head(available)
         IN  IF inChar = "\n" \/ inChar = "\r"
             THEN IF Len(buffer) > 0
                  THEN checkSerialInputKeeps(buffer, Tail(available),
                                             lines \o processSerialCommand(buffer))
                  ELSE checkSerialInputKeeps(buffer, Tail(available), lines)
             ELSE checkSerialInputKeeps(Append(buffer, inChar), Tail(available), lines)

\* a checkSerialInput() with a buffer of 16 bytes that drops what does not fit
RECURSIVE checkSerialInputFixedBuffer(_, _, _)
checkSerialInputFixedBuffer(buffer, available, lines) ==
    IF available = <<>> THEN [inputBuffer |-> buffer, lines |-> lines]
    ELSE LET inChar == Head(available)
         IN  IF inChar = "\n" \/ inChar = "\r"
             THEN IF Len(buffer) > 0
                  THEN checkSerialInputFixedBuffer(<<>>, Tail(available),
                                                   lines \o processSerialCommand(buffer))
                  ELSE checkSerialInputFixedBuffer(buffer, Tail(available), lines)
             ELSE checkSerialInputFixedBuffer(
                      IF Len(buffer) < 16 THEN Append(buffer, inChar) ELSE buffer,
                      Tail(available), lines)

\* a checkSerialInput() that returns after the first line it dispatches
RECURSIVE checkSerialInputOneLine(_, _, _)
checkSerialInputOneLine(buffer, available, lines) ==
    IF available = <<>> THEN [inputBuffer |-> buffer, lines |-> lines]
    ELSE LET inChar == Head(available)
         IN  IF inChar = "\n" \/ inChar = "\r"
             THEN IF Len(buffer) > 0
                  THEN [inputBuffer |-> <<>>, lines |-> lines \o processSerialCommand(buffer)]
                  ELSE checkSerialInputOneLine(buffer, Tail(available), lines)
             ELSE checkSerialInputOneLine(Append(buffer, inChar), Tail(available), lines)

\* a checkSerialInput() that ends a line at LF only and keeps a CR
RECURSIVE checkSerialInputEndsAtLF(_, _, _)
checkSerialInputEndsAtLF(buffer, available, lines) ==
    IF available = <<>> THEN [inputBuffer |-> buffer, lines |-> lines]
    ELSE LET inChar == Head(available)
         IN  IF inChar = "\n"
             THEN IF Len(buffer) > 0
                  THEN checkSerialInputEndsAtLF(<<>>, Tail(available),
                                                lines \o processSerialCommand(buffer))
                  ELSE checkSerialInputEndsAtLF(buffer, Tail(available), lines)
             ELSE checkSerialInputEndsAtLF(Append(buffer, inChar), Tail(available), lines)

RECURSIVE checkSerialInput(_, _, _)
checkSerialInput(buffer, available, lines) ==
    IF available = <<>> THEN [inputBuffer |-> buffer, lines |-> lines]
    ELSE LET inChar == Head(available)
         IN  IF inChar = "\n" \/ inChar = "\r"
             THEN IF Len(buffer) > 0
                  THEN checkSerialInput(<<>>, Tail(available),
                                        lines \o processSerialCommand(buffer))
                  ELSE checkSerialInput(buffer, Tail(available), lines)
             ELSE checkSerialInput(Append(buffer, inChar), Tail(available), lines)

RECURSIVE checkSerialInputIno(_, _, _)
checkSerialInputIno(buffer, available, lines) ==
    IF available = <<>> THEN [inputBuffer |-> buffer, lines |-> lines]
    ELSE LET inChar == Head(available)
         IN  IF inChar = "\n" \/ inChar = "\r"
             THEN IF Len(buffer) > 0
                  THEN checkSerialInputIno(<<>>, Tail(available),
                                           lines \o processSerialCommandIno(buffer))
                  ELSE checkSerialInputIno(buffer, Tail(available), lines)
             ELSE checkSerialInputIno(Append(buffer, inChar), Tail(available), lines)

(***************************************************************************)
(* loop(): the four steps of an iteration, in the order of the calls.      *)
(***************************************************************************)
\* a loop() with the timer check before the button pass
loopTimerFirst ==
    << "checkSerialInput", "readCurrentValues", "telemetry", "checkAndSendButtonEvents" >>

loop ==
    << "checkSerialInput", "readCurrentValues", "checkAndSendButtonEvents", "telemetry" >>

\* the step that follows a step of loop(); the first follows the last
After(step) ==
    LET k == CHOOSE j \in 1..Len(loop) : loop[j] = step
    IN  loop[(k % Len(loop)) + 1]

(***************************************************************************)
(* Helpers of the actions.                                                 *)
(***************************************************************************)
ByFirmware(e, i) == [f \in Firmware |-> IF f = EXT THEN e ELSE i]
Count(line, lines) == Cardinality({k \in 1..Len(lines) : lines[k] = line})
CountTag(tag, bytes) == Cardinality({k \in 1..Len(bytes) : bytes[k].t = tag})
\* the first line on the wire once lines are printed
\* the bytes of s after its last CR or LF; all of s when it has none
RECURSIVE AfterLastTerminator(_)
AfterLastTerminator(s) ==
    IF s = <<>> \/ s[Len(s)] \in {CR, LF} THEN <<>>
    ELSE Append(AfterLastTerminator(SubSeq(s, 1, Len(s) - 1)), s[Len(s)])

\* no time: nothing of the kind has happened yet
Never == [hi |-> -1, lo |-> 0]
HeadAfter(f, lines) ==
    IF wireHead[f] = "" /\ lines # <<>> THEN Head(lines) ELSE wireHead[f]

(***************************************************************************)
(* The state after the globals are constructed.                            *)
(***************************************************************************)
Boot(sliders, scenarios) ==
    /\ NUM_SLIDERS = sliders
    /\ pc = "setup"
    /\ clock = U32(0)
    /\ \E sc \in scenarios :
        /\ rx = sc.tape
        /\ wired = sc.wired
        /\ horizon = U32(STARTUP_DELAY_MS + sc.span)
    /\ inputBuffer = [f \in Firmware |-> <<>>]
    /\ analogSliderValues = [f \in Firmware |-> [i \in Sliders |-> 0]]
    /\ buttonValues = [f \in Firmware |-> [i \in Buttons |-> 0]]
    /\ previousButtonValues = [f \in Firmware |-> [i \in Buttons |-> 0]]
    /\ lastButtonChange = [i \in Buttons |-> U32(0)]
    /\ lastSendTime = [f \in Firmware |-> U32(0)]
    /\ out = [f \in Firmware |-> <<>>]
    /\ iter = 0
    /\ wireHead = [f \in Firmware |-> ""]
    /\ hsSeen = 0
    /\ unknownSeen = 0
    /\ hsSent = [f \in Firmware |-> 0]
    /\ pressed = [i \in Buttons |-> FALSE]
    /\ pressedBefore = [i \in Buttons |-> FALSE]
    /\ lastPressAt = [f \in Firmware |-> [i \in Buttons |-> Never]]
    /\ runPresses = [f \in Firmware |-> [i \in Buttons |-> 0]]
    /\ lastTelemetryAt = [f \in Firmware |-> Never]
    /\ sinceTelemetry = [f \in Firmware |-> Never]
    /\ arrivedTags = <<>>
    /\ sampled = [i \in Sliders |-> 0]
    /\ pending = <<>>
    /\ uptime = 0
    /\ sentAtUptime = [f \in Firmware |-> -1]
    /\ pressAtUptime = [f \in Firmware |-> [i \in Buttons |-> -1]]
    /\ shadowLastSendTime = [f \in Firmware |-> U32(0)]
    /\ shadowSent = [f \in Firmware |-> 0]

\* the sketches as the repository builds them: NUM_SLIDERS = 4
Init == Boot(4, Scenarios)

\* the sketches as the repository builds them, followed without end
InitLive == Boot(4, LiveScenarios)

\* the sketches built without analog channels: NUM_SLIDERS = 0
InitNoSliders == Boot(0, NoSliderScenarios)

(***************************************************************************)
(* setup(): the lines it prints after delay(1000).                         *)
(***************************************************************************)
\* a setup() that prints nothing
setupSilent == <<>>

setup == <<HANDSHAKE_RESPONSE>>
setupIno == <<HANDSHAKE_RESPONSE>>

\* a setup() without the delay(1000): loop() begins when the clock starts
SetupNoDelay ==
    /\ pc = "setup"
    /\ clock' = clock
    /\ uptime' = uptime
    /\ UNCHANGED << sentAtUptime, pressAtUptime >>
    /\ out' = ByFirmware(setup, setupIno)
    /\ wireHead' = [f \in Firmware |-> HeadAfter(f, out'[f])]
    /\ pc' = Head(loop)
    /\ UNCHANGED << pending, shadowLastSendTime, shadowSent, NUM_SLIDERS, sampled, unknownSeen,
                    horizon, rx, wired, inputBuffer, analogSliderValues, buttonValues,
                    previousButtonValues, lastButtonChange, lastSendTime, iter,
                    hsSeen, hsSent, history, sinceTelemetry, arrivedTags >>

Setup ==
    /\ pc = "setup"
    /\ clock' = Add32(clock, STARTUP_DELAY_MS)
    /\ uptime' = uptime + STARTUP_DELAY_MS
    /\ UNCHANGED << sentAtUptime, pressAtUptime >>
    /\ out' = ByFirmware(setup, setupIno)
    /\ wireHead' = [f \in Firmware |-> HeadAfter(f, out'[f])]
    /\ pc' = Head(loop)
    /\ UNCHANGED << pending, shadowLastSendTime, shadowSent, NUM_SLIDERS, sampled, unknownSeen, horizon, rx, wired, inputBuffer, analogSliderValues, buttonValues,
                    previousButtonValues, lastButtonChange, lastSendTime, iter,
                    hsSeen, hsSent, history, sinceTelemetry, arrivedTags >>

(***************************************************************************)
(* loop(), step 0: checkSerialInput() on the bytes that have arrived.      *)
(***************************************************************************)
\* a checkSerialInput() that waits until a byte has arrived
AvailableBlocking == 1..(IF Len(rx) < MaxAvailable THEN Len(rx) ELSE MaxAvailable)

\* Serial.available(): the number of bytes the while loop finds, none included
Available == 0..(IF Len(rx) < MaxAvailable THEN Len(rx) ELSE MaxAvailable)

CheckSerialInput ==
    /\ pc = "checkSerialInput"
    /\ \E n \in Available :
        LET arrived == SubSeq(rx, 1, n)
            available == [k \in 1..n |-> arrived[k].c]
            e == checkSerialInput(inputBuffer[EXT], available, <<>>)
            i == checkSerialInputIno(inputBuffer[INO], available, <<>>)
        IN  /\ rx' = SubSeq(rx, n + 1, Len(rx))
            /\ inputBuffer' = ByFirmware(e.inputBuffer, i.inputBuffer)
            /\ out' = ByFirmware(e.lines, i.lines)
            /\ hsSeen' = hsSeen + CountTag("hs", arrived)
            /\ unknownSeen' = unknownSeen + CountTag("bad", arrived)
            /\ pending' = AfterLastTerminator(pending \o available)
            /\ arrivedTags' = Tags(arrived)
    /\ sinceTelemetry' = [f \in Firmware |-> Never]
    /\ shadowSent' = [f \in Firmware |-> 0]
    /\ UNCHANGED << uptime, sentAtUptime, pressAtUptime >>
    /\ hsSent' = [f \in Firmware |-> hsSent[f] + Count(HANDSHAKE_RESPONSE, out'[f])]
    /\ wireHead' = [f \in Firmware |-> HeadAfter(f, out'[f])]
    /\ iter' = IF iter < MaxIter THEN iter + 1 ELSE iter
    /\ pc' = After(pc)
    /\ UNCHANGED << shadowLastSendTime, NUM_SLIDERS, sampled, clock, horizon, wired, analogSliderValues, buttonValues,
                    previousButtonValues, lastButtonChange, lastSendTime, history >>

(***************************************************************************)
(* readCurrentValues(): analogRead() of every slider, !digitalRead() of    *)
(* every button (INPUT_PULLUP: LOW, 0, is pressed).                        *)
(***************************************************************************)
readCurrentValues(analog, digital) ==
    [ analogSliderValues |-> [i \in Sliders |-> analog[i]],
      buttonValues |-> [i \in Buttons |-> IF digital[i] = 0 THEN 1 ELSE 0] ]

readCurrentValuesIno(analog, digital) ==
    [ analogSliderValues |-> [i \in Sliders |-> analog[i]],
      buttonValues |-> [i \in Buttons |-> IF digital[i] = 0 THEN 1 ELSE 0] ]

\* the levels digitalRead() can return: a button that is not operated reads HIGH
PinLevels == { d \in [Buttons -> {0, 1}] : \A i \in Buttons : i \notin wired => d[i] = 1 }

(***************************************************************************)
(* loop(), step 1: readCurrentValues().                                    *)
(***************************************************************************)
\* a sampling step that also copies the samples to previousButtonValues
ReadCurrentValuesAndPrevious ==
    /\ pc = "readCurrentValues"
    /\ \E analog \in AnalogSamples, digital \in PinLevels :
        LET e == readCurrentValues(analog, digital)
            i == readCurrentValuesIno(analog, digital)
        IN  /\ analogSliderValues' = ByFirmware(e.analogSliderValues, i.analogSliderValues)
            /\ buttonValues' = ByFirmware(e.buttonValues, i.buttonValues)
            /\ previousButtonValues' = ByFirmware(e.buttonValues, i.buttonValues)
            /\ pressed' = [b \in Buttons |-> digital[b] = 0]
            /\ sampled' = analog
    /\ pressedBefore' = pressed
    /\ UNCHANGED << uptime, sentAtUptime, pressAtUptime >>
    /\ pc' = After(pc)
    /\ UNCHANGED << pending, shadowLastSendTime, shadowSent, NUM_SLIDERS, unknownSeen, clock,
                    horizon, rx, wired, inputBuffer, lastButtonChange, lastSendTime,
                    out, iter, wireHead, hsSeen, hsSent, lastPressAt, runPresses,
                    lastTelemetryAt, sinceTelemetry, arrivedTags >>

ReadCurrentValues ==
    /\ pc = "readCurrentValues"
    /\ \E analog \in AnalogSamples, digital \in PinLevels :
        LET e == readCurrentValues(analog, digital)
            i == readCurrentValuesIno(analog, digital)
        IN  /\ analogSliderValues' = ByFirmware(e.analogSliderValues, i.analogSliderValues)
            /\ buttonValues' = ByFirmware(e.buttonValues, i.buttonValues)
            /\ pressed' = [b \in Buttons |-> digital[b] = 0]
            /\ sampled' = analog
    /\ pressedBefore' = pressed
    /\ UNCHANGED << uptime, sentAtUptime, pressAtUptime >>
    /\ pc' = After(pc)
    /\ UNCHANGED << pending, shadowLastSendTime, shadowSent, NUM_SLIDERS, unknownSeen, clock, horizon, rx, wired, inputBuffer, previousButtonValues,
                    lastButtonChange, lastSendTime, out, iter, wireHead, hsSeen,
                    hsSent, lastPressAt, runPresses, lastTelemetryAt, sinceTelemetry,
                    arrivedTags >>

(***************************************************************************)
(* checkAndSendButtonEvents() of EXT: the rising edge, the debounce check, *)
(* the event line, and the loop over the buttons in index order.           *)
(***************************************************************************)
\* an edge test that also takes the release
anyEdge(current, previous) == current # previous

risingEdge(current, previous) == current = 1 /\ previous = 0

\* a debounce check with >= for >
debouncedAtLeast(now, lastChange) == Ge32(Sub32(now, lastChange), DEBOUNCE_MS)

debounced(now, lastChange) == Gt32(Sub32(now, lastChange), DEBOUNCE_MS)

eventString(i) == "Button " \o ToString(i + 1) \o " 1"

\* a loop body that keeps the previous state when it suppresses the edge
buttonPassKeepsPrevious(i, now, current, previous, lastChange) ==
    LET send == risingEdge(current, previous) /\ debounced(now, lastChange)
    IN  [ lines |-> IF send THEN <<eventString(i)>> ELSE <<>>,
          lastButtonChange |-> IF send THEN now ELSE lastChange,
          previousButtonValues |->
              IF risingEdge(current, previous) /\ ~send THEN previous ELSE current ]

\* a loop body that does not record the time of the press
buttonPassNoStamp(i, now, current, previous, lastChange) ==
    LET send == risingEdge(current, previous) /\ debounced(now, lastChange)
    IN  [ lines |-> IF send THEN <<eventString(i)>> ELSE <<>>,
          lastButtonChange |-> lastChange,
          previousButtonValues |-> current ]

\* a loop body that writes the previous state only when it reports a press
buttonPassUpdatesOnEvent(i, now, current, previous, lastChange) ==
    LET send == risingEdge(current, previous) /\ debounced(now, lastChange)
    IN  [ lines |-> IF send THEN <<eventString(i)>> ELSE <<>>,
          lastButtonChange |-> IF send THEN now ELSE lastChange,
          previousButtonValues |-> IF send THEN current ELSE previous ]

\* a loop body that restarts the debounce window at every rising edge
buttonPassStampsEveryEdge(i, now, current, previous, lastChange) ==
    LET send == risingEdge(current, previous) /\ debounced(now, lastChange)
    IN  [ lines |-> IF send THEN <<eventString(i)>> ELSE <<>>,
          lastButtonChange |-> IF risingEdge(current, previous) THEN now ELSE lastChange,
          previousButtonValues |-> current ]

\* a loop body that also reports the release, with value 0
buttonPassReportsRelease(i, now, current, previous, lastChange) ==
    LET send == risingEdge(current, previous) /\ debounced(now, lastChange)
    IN  [ lines |-> IF send THEN <<eventString(i)>>
                    ELSE IF current = 0 /\ previous = 1
                         THEN <<"Button " \o ToString(i + 1) \o " 0">> ELSE <<>>,
          lastButtonChange |-> IF send THEN now ELSE lastChange,
          previousButtonValues |-> current ]

\* what the body of the for loop leaves for button i
buttonPass(i, now, current, previous, lastChange) ==
    LET send == risingEdge(current, previous) /\ debounced(now, lastChange)
    IN  [ lines |-> IF send THEN <<eventString(i)>> ELSE <<>>,
          lastButtonChange |-> IF send THEN now ELSE lastChange,
          previousButtonValues |-> current ]

\* a checkAndSendButtonEvents() that leaves the loop after the first press line
RECURSIVE checkAndSendButtonEventsFirstOnly(_, _, _, _, _, _)
checkAndSendButtonEventsFirstOnly(i, now, values, previous, lastChange, lines) ==
    IF i >= NUM_BUTTONS \/ lines # <<>>
    THEN [ previousButtonValues |-> previous, lastButtonChange |-> lastChange,
           lines |-> lines ]
    ELSE LET r == buttonPass(i, now, values[i], previous[i], lastChange[i])
         IN  checkAndSendButtonEventsFirstOnly(i + 1, now, values,
                 [previous EXCEPT ![i] = r.previousButtonValues],
                 [lastChange EXCEPT ![i] = r.lastButtonChange],
                 lines \o r.lines)

RECURSIVE checkAndSendButtonEvents(_, _, _, _, _, _)
checkAndSendButtonEvents(i, now, values, previous, lastChange, lines) ==
    IF i >= NUM_BUTTONS
    THEN [ previousButtonValues |-> previous, lastButtonChange |-> lastChange,
           lines |-> lines ]
    ELSE LET r == buttonPass(i, now, values[i], previous[i], lastChange[i])
         IN  checkAndSendButtonEvents(i + 1, now, values,
                 [previous EXCEPT ![i] = r.previousButtonValues],
                 [lastChange EXCEPT ![i] = r.lastButtonChange],
                 lines \o r.lines)

(***************************************************************************)
(* checkAndSendButtonEvents() of INO: no clock, no debounce check.         *)
(***************************************************************************)
eventStringIno(i) == "b" \o ToString(i + 1) \o " 1"

\* a loop body that does not remember the state it has seen
buttonPassInoForgets(i, current, previous) ==
    [ lines |-> IF current = 1 /\ previous = 0 THEN <<eventStringIno(i)>> ELSE <<>>,
      previousButtonValues |-> previous ]

buttonPassIno(i, current, previous) ==
    [ lines |-> IF current = 1 /\ previous = 0 THEN <<eventStringIno(i)>> ELSE <<>>,
      previousButtonValues |-> current ]

RECURSIVE checkAndSendButtonEventsIno(_, _, _, _)
checkAndSendButtonEventsIno(i, values, previous, lines) ==
    IF i >= NUM_BUTTONS
    THEN [ previousButtonValues |-> previous, lines |-> lines ]
    ELSE LET r == buttonPassIno(i, values[i], previous[i])
         IN  checkAndSendButtonEventsIno(i + 1, values,
                 [previous EXCEPT ![i] = r.previousButtonValues], lines \o r.lines)

\* the press line of button i in the format of sketch f
PressLine(f, i) == IF f = EXT THEN eventString(i) ELSE eventStringIno(i)
IsIn(line, lines) == \E k \in 1..Len(lines) : lines[k] = line

\* millis(): the clock has advanced by d since it was last read
CanAdvance(d) == LET left == Sub32(horizon, clock) IN left.hi = 0 /\ d <= left.lo

(***************************************************************************)
(* loop(), step 2: checkAndSendButtonEvents(); EXT reads millis() first.   *)
(***************************************************************************)
CheckAndSendButtonEvents ==
    /\ pc = "checkAndSendButtonEvents"
    /\ \E d \in Deltas :
        /\ CanAdvance(d)
        /\ clock' = Add32(clock, d)
        /\ uptime' = uptime + d
    /\ LET now == clock'
           e == checkAndSendButtonEvents(0, now, buttonValues[EXT],
                    previousButtonValues[EXT], lastButtonChange, <<>>)
           i == checkAndSendButtonEventsIno(0, buttonValues[INO],
                    previousButtonValues[INO], <<>>)
           printed == ByFirmware(e.lines, i.lines)
       IN  /\ previousButtonValues' =
                  ByFirmware(e.previousButtonValues, i.previousButtonValues)
           /\ lastButtonChange' = e.lastButtonChange
           /\ out' = [f \in Firmware |-> out[f] \o printed[f]]
           /\ wireHead' = [f \in Firmware |-> HeadAfter(f, printed[f])]
           /\ lastPressAt' = [f \in Firmware |-> [b \in Buttons |->
                  IF IsIn(PressLine(f, b), printed[f]) THEN now ELSE lastPressAt[f][b]]]
           /\ pressAtUptime' = [f \in Firmware |-> [b \in Buttons |->
                  IF IsIn(PressLine(f, b), printed[f]) THEN uptime' ELSE pressAtUptime[f][b]]]
           /\ sentAtUptime' = sentAtUptime
           /\ runPresses' = [f \in Firmware |-> [b \in Buttons |->
                  (IF pressed[b] /\ ~pressedBefore[b] THEN 0 ELSE runPresses[f][b])
                      + Count(PressLine(f, b), printed[f])]]
           /\ hsSent' = [f \in Firmware |->
                  hsSent[f] + Count(HANDSHAKE_RESPONSE, printed[f])]
    /\ pc' = After(pc)
    /\ UNCHANGED << pending, shadowLastSendTime, shadowSent, NUM_SLIDERS, sampled, unknownSeen, horizon, rx, wired, inputBuffer, analogSliderValues, buttonValues,
                    lastSendTime, iter, hsSeen, pressed, pressedBefore,
                    lastTelemetryAt, sinceTelemetry, arrivedTags >>

(***************************************************************************)
(* sendContinuousSliderValues(): the line of all sliders.                  *)
(***************************************************************************)
\* a line with a separator after every slider, the last one too
RECURSIVE builtStringTrailing(_, _)
builtStringTrailing(i, values) ==
    IF i >= NUM_SLIDERS THEN ""
    ELSE "Slider " \o ToString(i + 1) \o " " \o ToString(values[i]) \o "|"
             \o builtStringTrailing(i + 1, values)

RECURSIVE builtString(_, _)
builtString(i, values) ==
    IF i >= NUM_SLIDERS THEN ""
    ELSE "Slider " \o ToString(i + 1) \o " " \o ToString(values[i])
             \o (IF i < NUM_SLIDERS - 1 THEN "|" ELSE "")
             \o builtString(i + 1, values)

\* a sendContinuousSliderValues() that prints without looking at NUM_SLIDERS
sendContinuousSliderValuesAlways(values) == <<builtString(0, values)>>

sendContinuousSliderValues(values) ==
    IF NUM_SLIDERS > 0 THEN <<builtString(0, values)>> ELSE <<>>

RECURSIVE builtStringIno(_, _)
builtStringIno(i, values) ==
    IF i >= NUM_SLIDERS THEN ""
    ELSE "s" \o ToString(i + 1) \o " " \o ToString(values[i])
             \o (IF i < NUM_SLIDERS - 1 THEN "|" ELSE "")
             \o builtStringIno(i + 1, values)

sendContinuousSliderValuesIno(values) ==
    IF NUM_SLIDERS > 0 THEN <<builtStringIno(0, values)>> ELSE <<>>

(***************************************************************************)
(* loop(), step 3: the telemetry timer.                                    *)
(***************************************************************************)
\* a timer check with > for >=
intervalExceeded(currentMillis, lastSend) ==
    Gt32(Sub32(currentMillis, lastSend), SEND_INTERVAL_MS)

\* a timer test that compares absolute times: currentMillis >= lastSend + interval
intervalPassedAbsolute(currentMillis, lastSend) ==
    LET due == Add32(lastSend, SEND_INTERVAL_MS)
    IN  \/ currentMillis.hi > due.hi
        \/ currentMillis.hi = due.hi /\ currentMillis.lo >= due.lo

intervalPassed(currentMillis, lastSend) ==
    Ge32(Sub32(currentMillis, lastSend), SEND_INTERVAL_MS)

\* a timer step that reports only when the first slider reads high
loopSendWhenHigh(currentMillis, lastSend, values) ==
    IF intervalPassed(currentMillis, lastSend) /\ values[0] > 300
    THEN [lastSendTime |-> currentMillis, lines |-> sendContinuousSliderValues(values)]
    ELSE [lastSendTime |-> lastSend, lines |-> <<>>]

\* a timer step that does not record the time of the emission
loopSendNoStamp(currentMillis, lastSend, values) ==
    IF intervalPassed(currentMillis, lastSend)
    THEN [lastSendTime |-> lastSend, lines |-> sendContinuousSliderValues(values)]
    ELSE [lastSendTime |-> lastSend, lines |-> <<>>]

loopSend(currentMillis, lastSend, values) ==
    IF intervalPassed(currentMillis, lastSend)
    THEN [lastSendTime |-> currentMillis, lines |-> sendContinuousSliderValues(values)]
    ELSE [lastSendTime |-> lastSend, lines |-> <<>>]

intervalPassedIno(currentMillis, lastSend) ==
    Ge32(Sub32(currentMillis, lastSend), SEND_INTERVAL_MS)

loopSendIno(currentMillis, lastSend, values) ==
    IF intervalPassedIno(currentMillis, lastSend)
    THEN [lastSendTime |-> currentMillis, lines |-> sendContinuousSliderValuesIno(values)]
    ELSE [lastSendTime |-> lastSend, lines |-> <<>>]

\* the telemetry lines sketch f can print with the readings of the model
TelemetryLines(f) ==
    { IF f = EXT THEN builtString(0, v) ELSE builtStringIno(0, v) : v \in AnalogSamples }
CountIn(set, lines) == Cardinality({k \in 1..Len(lines) : lines[k] \in set})

\* the readings of the second run: those the first run did not get
OtherReadings(values) ==
    IF \E v \in AnalogSamples : v # values
    THEN CHOOSE v \in AnalogSamples : v # values ELSE values

Telemetry ==
    /\ pc = "telemetry"
    /\ \E d \in Deltas :
        /\ CanAdvance(d)
        /\ clock' = Add32(clock, d)
        /\ uptime' = uptime + d
    /\ LET currentMillis == clock'
           e == loopSend(currentMillis, lastSendTime[EXT], analogSliderValues[EXT])
           i == loopSendIno(currentMillis, lastSendTime[INO], analogSliderValues[INO])
           printed == ByFirmware(e.lines, i.lines)
           se == loopSend(currentMillis, shadowLastSendTime[EXT],
                          OtherReadings(analogSliderValues[EXT]))
           si == loopSendIno(currentMillis, shadowLastSendTime[INO],
                             OtherReadings(analogSliderValues[INO]))
       IN  /\ lastSendTime' = ByFirmware(e.lastSendTime, i.lastSendTime)
           /\ shadowLastSendTime' = ByFirmware(se.lastSendTime, si.lastSendTime)
           /\ shadowSent' = ByFirmware(Len(se.lines), Len(si.lines))
           /\ out' = [f \in Firmware |-> out[f] \o printed[f]]
           /\ wireHead' = [f \in Firmware |-> HeadAfter(f, printed[f])]
           /\ lastTelemetryAt' = [f \in Firmware |->
                  IF CountIn(TelemetryLines(f), printed[f]) > 0
                  THEN currentMillis ELSE lastTelemetryAt[f]]
           /\ sentAtUptime' = [f \in Firmware |->
                  IF CountIn(TelemetryLines(f), printed[f]) > 0
                  THEN uptime' ELSE sentAtUptime[f]]
           /\ pressAtUptime' = pressAtUptime
           /\ sinceTelemetry' = [f \in Firmware |->
                  IF lastTelemetryAt[f] = Never THEN Never
                  ELSE Sub32(currentMillis, lastTelemetryAt[f])]
           /\ hsSent' = [f \in Firmware |->
                  hsSent[f] + Count(HANDSHAKE_RESPONSE, printed[f])]
    /\ pc' = After(pc)
    /\ UNCHANGED << pending, NUM_SLIDERS, sampled, unknownSeen, horizon, rx, wired, inputBuffer, analogSliderValues, buttonValues,
                    previousButtonValues, lastButtonChange, iter, hsSeen,
                    pressed, pressedBefore, lastPressAt, runPresses, arrivedTags >>

(***************************************************************************)
(* A run that has lasted 2^32 - WrapLead ms (49.7 days): loop() is about   *)
(* to begin an iteration; the iteration before it read button 3 (index 2)  *)
(* pressed, printed its press line and a telemetry line, all at millis()   *)
(* = 2^32 - WrapLead.  Button 4 (index 3) has never been pressed.  uptime  *)
(* counts from this state.                                                 *)
(***************************************************************************)
BeforeWrap == [hi |-> Limb - 1, lo |-> Limb - WrapLead]
NearWrap ==
    LET held == [i \in 0..(NUM_BUTTONS - 1) |-> IF i = 2 THEN 1 ELSE 0]
        readings == [i \in 0..3 |-> <<200, 800, 0, 1023>>[i + 1]]
    IN
    /\ NUM_SLIDERS = 4
    /\ pc = "checkSerialInput"
    /\ clock = BeforeWrap
    /\ horizon = Add32(BeforeWrap, WrapLead + ShortSpan)
    /\ rx = <<>>
    /\ wired = {2, 3}
    /\ inputBuffer = [f \in Firmware |-> <<>>]
    /\ analogSliderValues = [f \in Firmware |-> readings]
    /\ buttonValues = [f \in Firmware |-> held]
    /\ previousButtonValues = [f \in Firmware |-> held]
    /\ lastButtonChange = [i \in Buttons |-> IF i = 2 THEN BeforeWrap ELSE U32(0)]
    /\ lastSendTime = [f \in Firmware |-> BeforeWrap]
    /\ out = ByFirmware(<<eventString(2), builtString(0, readings)>>,
                        <<eventStringIno(2), builtStringIno(0, readings)>>)
    /\ iter = MaxIter
    /\ wireHead = [f \in Firmware |-> HANDSHAKE_RESPONSE]
    /\ hsSeen = 0
    /\ unknownSeen = 0
    /\ hsSent = [f \in Firmware |-> 0]
    /\ pressed = [i \in Buttons |-> i = 2]
    /\ pressedBefore = [i \in Buttons |-> FALSE]
    /\ lastPressAt = [f \in Firmware |-> [i \in Buttons |-> IF i = 2 THEN BeforeWrap ELSE Never]]
    /\ runPresses = [f \in Firmware |-> [i \in Buttons |-> IF i = 2 THEN 1 ELSE 0]]
    /\ lastTelemetryAt = [f \in Firmware |-> BeforeWrap]
    /\ sinceTelemetry = [f \in Firmware |-> U32(SEND_INTERVAL_MS)]
    /\ arrivedTags = <<>>
    /\ sampled = readings
    /\ pending = <<>>
    /\ uptime = 0
    /\ sentAtUptime = [f \in Firmware |-> 0]
    /\ pressAtUptime = [f \in Firmware |-> [i \in Buttons |-> IF i = 2 THEN 0 ELSE -1]]
    /\ shadowLastSendTime = [f \in Firmware |-> BeforeWrap]
    /\ shadowSent = [f \in Firmware |-> 1]

\* the runs of the wrap: one from boot, one that continues near the wrap
WrapScenarios == { [tape |-> <<>>, wired |-> {2}, span |-> BriefSpan] }
InitWrap == Boot(4, WrapScenarios) \/ NearWrap

Next ==
    \/ Setup
    \/ CheckSerialInput
    \/ ReadCurrentValues
    \/ CheckAndSendButtonEvents
    \/ Telemetry

(***************************************************************************)
(* The claims.                                                             *)
(***************************************************************************)
SerialStep == pc = "checkSerialInput" /\ pc' = "readCurrentValues"
ButtonStep == pc = "checkAndSendButtonEvents" /\ pc' = "telemetry"
TelemetryStep == pc = "telemetry" /\ pc' = "checkSerialInput"
\* the lines sketch f prints in the step
NewLines(f) == SubSeq(out'[f], Len(out[f]) + 1, Len(out'[f]))
\* the button pass of the current iteration is done
AfterButtons == pc \in {"telemetry", "checkSerialInput"}
\* at time t, more than (at least) n ms after the last press line of button i
LongAfterPress(f, i, t, n) ==
    lastPressAt[f][i] = Never \/ Gt32(Sub32(t, lastPressAt[f][i]), n)
AtLeastAfterPress(f, i, t, n) ==
    lastPressAt[f][i] = Never \/ Ge32(Sub32(t, lastPressAt[f][i]), n)
\* a line that reports button i, pressed or released, in the format of f
ButtonLines(f, i) ==
    { (IF f = EXT THEN "Button " ELSE "b") \o ToString(i + 1) \o " " \o v : v \in {"0", "1"} }

C3_OnePressPerWindow ==
    [][ButtonStep => \A i \in Buttons :
          /\ Count(eventString(i), NewLines(EXT)) <= 1
          /\ (IsIn(eventString(i), NewLines(EXT)) /\ lastPressAt[EXT][i] # Never)
                => Gt32(Sub32(clock', lastPressAt[EXT][i]), DEBOUNCE_MS)]_vars

\* button 3 pressed again 5 ms after its press line: no second line
C3_Witness ==
    /\ pc = "telemetry"
    /\ pressed[2] /\ ~pressedBefore[2]
    /\ lastPressAt[EXT][2] # Never
    /\ Sub32(clock, lastPressAt[EXT][2]) = U32(5)
    /\ ~IsIn("Button 3 1", out[EXT])

\* C4 as claimed: INO debounces, a press line of a button is not followed
\* by another within the debounce window.
C4_InoDebounces ==
    [][ButtonStep => \A i \in Buttons :
          (IsIn(eventStringIno(i), NewLines(INO)) /\ lastPressAt[INO][i] # Never)
              => Gt32(Sub32(clock', lastPressAt[INO][i]), DEBOUNCE_MS)]_vars

\* C5: in an iteration that samples button i not pressed, neither sketch
\* prints a line for button i.
C5_SilentOnRelease ==
    \A f \in Firmware, i \in Buttons :
        (AfterButtons /\ ~pressed[i]) => \A k \in 1..Len(out[f]) : out[f][k] \notin ButtonLines(f, i)

\* an iteration that sampled a release has ended
C5_Witness ==
    /\ pc = "checkSerialInput" /\ iter >= 1
    /\ pressedBefore[2] /\ ~pressed[2]

\* C6: every handshake request line is answered with one handshake
\* response, printed in the iteration that reads its terminator.
C6_OneResponsePerRequest ==
    \A f \in Firmware :
        /\ hsSent[f] = hsSeen
        /\ (iter >= 1 => Count(HANDSHAKE_RESPONSE, out[f]) = Count("hs", arrivedTags))

\* the request with whitespace around it has been answered in an earlier
\* iteration; this one has read the first byte of the next line
C6_Witness ==
    /\ pc = "readCurrentValues"
    /\ hsSeen = 1 /\ hsSent[EXT] = 1 /\ hsSent[INO] = 1
    /\ inputBuffer[EXT] = <<"x">>
    /\ out[EXT] = <<>>

\* C7: setup() prints exactly the handshake response, before any byte is
\* read, and that line is the first on the wire.
C7_BootHandshakeFirst ==
    \A f \in Firmware :
        /\ pc = "setup" => (out[f] = <<>> /\ wireHead[f] = "")
        /\ pc # "setup" => wireHead[f] = HANDSHAKE_RESPONSE
        /\ (pc # "setup" /\ iter = 0)
              => (out[f] = <<HANDSHAKE_RESPONSE>> /\ hsSeen = 0 /\ hsSent[f] = 0)

\* setup() is over and the host's request is still unread
C7_Witness ==
    /\ pc = "checkSerialInput" /\ iter = 0
    /\ rx = TapeRoundTrip
    /\ out[EXT] = <<HANDSHAKE_RESPONSE>>

\* C8: terminators read while the buffer is empty print nothing and leave
\* the buffer empty; when the round trip (request, CR LF, LF) has been
\* read, one response has been printed.
C8_EmptyTerminatorNoOp ==
    [][SerialStep =>
          LET arrived == SubSeq(rx, 1, Len(rx) - Len(rx'))
          IN  \A f \in Firmware :
                /\ ( /\ inputBuffer[f] = <<>>
                     /\ \A k \in 1..Len(arrived) : arrived[k].c \in {CR, LF} )
                      => (out'[f] = <<>> /\ inputBuffer'[f] = <<>> /\ hsSent'[f] = hsSent[f])
                /\ (arrived # <<>> /\ arrived[Len(arrived)].t = "rt")
                      => hsSent'[f] = 1]_vars

\* the last LF of the round trip was read with the buffer empty: nothing
\* is printed, the one response was printed before
C8_Witness ==
    /\ pc = "readCurrentValues"
    /\ arrivedTags = <<"rt">>
    /\ out[EXT] = <<>> /\ inputBuffer[EXT] = <<>>
    /\ hsSent[EXT] = 1

\* C9: an iteration prints at most one telemetry line, and a telemetry
\* line is at least SEND_INTERVAL_MS after the one before.
C9_TelemetryAtMostOncePerInterval ==
    [][\A f \in Firmware :
          /\ CountIn(TelemetryLines(f), out'[f]) <= 1
          /\ (TelemetryStep /\ CountIn(TelemetryLines(f), NewLines(f)) > 0
                  /\ lastTelemetryAt[f] # Never)
                => Ge32(Sub32(clock', lastTelemetryAt[f]), SEND_INTERVAL_MS)]_vars

\* a timer check 5 ms after a telemetry line: no line
C9_Witness ==
    /\ pc = "checkSerialInput"
    /\ sinceTelemetry[EXT] = U32(5) /\ sinceTelemetry[INO] = U32(5)
    /\ CountIn(TelemetryLines(EXT), out[EXT]) = 0
    /\ CountIn(TelemetryLines(INO), out[INO]) = 0

\* C10 as claimed: every interval that has passed since the last telemetry
\* line gets a line of its own, two intervals two lines.
C10_NoCoalescing ==
    [][(TelemetryStep /\ lastTelemetryAt[EXT] # Never
            /\ Ge32(Sub32(clock', lastTelemetryAt[EXT]), 2 * SEND_INTERVAL_MS))
          => CountIn(TelemetryLines(EXT), NewLines(EXT)) >= 2]_vars

\* C10, amended: the timer check prints one telemetry line when at least
\* SEND_INTERVAL_MS have passed since the last one (or none was printed
\* yet), however many intervals have passed, and none otherwise.
C10_OneLineWhenDue ==
    [][TelemetryStep => \A f \in Firmware :
          CountIn(TelemetryLines(f), NewLines(f)) =
              IF \/ lastTelemetryAt[f] = Never
                 \/ Ge32(Sub32(clock', lastTelemetryAt[f]), SEND_INTERVAL_MS)
              THEN 1 ELSE 0]_vars

\* two intervals had passed at the timer check, one line was printed
C10_Witness ==
    /\ pc = "checkSerialInput"
    /\ sinceTelemetry[EXT] # Never
    /\ Ge32(sinceTelemetry[EXT], 2 * SEND_INTERVAL_MS)
    /\ CountIn(TelemetryLines(EXT), out[EXT]) = 1

\* C11: built with zero analog channels, neither sketch prints anything at
\* the timer check, whatever time has passed; GET_CONFIG is answered by
\* EXT, with the channel counts of that build, and the press lines are
\* printed as in the build with sliders.
C11_NoTelemetryWithoutSliders ==
    [][ /\ TelemetryStep => \A f \in Firmware : NewLines(f) = <<>>
        /\ SerialStep =>
              /\ out'[EXT] = [k \in 1..Count("cfg", arrivedTags') |->
                                 "CONFIG:SLIDERS:0:BUTTONS:6:SCREEN:1"]
              /\ out'[INO] = <<>>
        /\ ButtonStep => \A i \in Buttons :
              /\ IsIn(eventStringIno(i), NewLines(INO)) <=> (pressed[i] /\ ~pressedBefore[i])
              /\ IsIn(eventString(i), NewLines(EXT))
                    <=> (pressed[i] /\ ~pressedBefore[i]
                            /\ LongAfterPress(EXT, i, clock', DEBOUNCE_MS)) ]_vars

\* without sliders: the timer check of this iteration has passed (it
\* recorded the time), the iteration printed the GET_CONFIG response and a
\* press line, and nothing else
C11_Witness ==
    /\ NUM_SLIDERS = 0
    /\ pc = "checkSerialInput" /\ iter >= 1
    /\ lastSendTime[EXT] = clock /\ lastSendTime[INO] = clock
    /\ out[EXT] = <<"CONFIG:SLIDERS:0:BUTTONS:6:SCREEN:1", "Button 3 1">>
    /\ out[INO] = <<"b3 1">>

\* the telemetry line of sketch f for the readings v, written out
TelemetryOf(f, v) ==
    IF v = [i \in Sliders |-> <<200, 800, 0, 1023>>[i + 1]]
    THEN (IF f = EXT THEN "Slider 1 200|Slider 2 800|Slider 3 0|Slider 4 1023"
                     ELSE "s1 200|s2 800|s3 0|s4 1023")
    ELSE IF v = [i \in Sliders |-> <<512, 1023, 7, 0>>[i + 1]]
    THEN (IF f = EXT THEN "Slider 1 512|Slider 2 1023|Slider 3 7|Slider 4 0"
                     ELSE "s1 512|s2 1023|s3 7|s4 0")
    ELSE "?"

\* C12: every line printed at the timer check lists the four sliders once,
\* in order, numbered from 1, separated by "|" with none at the end, each
\* with the value analogRead() returned in this iteration: for the readings
\* 200, 800, 0, 1023 it is "Slider 1 200|Slider 2 800|Slider 3 0|Slider 4 1023"
\* in EXT and "s1 200|s2 800|s3 0|s4 1023" in INO.
C12_TelemetryLineFormat ==
    [][TelemetryStep => \A f \in Firmware :
          \A k \in 1..Len(NewLines(f)) : NewLines(f)[k] = TelemetryOf(f, sampled)]_vars

\* the iteration that read 200, 800, 0, 1023 has printed its telemetry line
C12_Witness ==
    /\ pc = "checkSerialInput" /\ iter >= 1
    /\ sampled = [i \in Sliders |-> <<200, 800, 0, 1023>>[i + 1]]
    /\ out[EXT] = <<"Slider 1 200|Slider 2 800|Slider 3 0|Slider 4 1023">>
    /\ out[INO] = <<"s1 200|s2 800|s3 0|s4 1023">>

\* C13: in EXT every GET_CONFIG line is answered, in the iteration that
\* reads its terminator, with one line "CONFIG:SLIDERS:4:BUTTONS:6:SCREEN:1",
\* whatever was sampled, timed or received before; the serial step prints
\* no other line than that one and the handshake response.
C13_ConfigResponse ==
    [][SerialStep =>
          /\ Count("CONFIG:SLIDERS:4:BUTTONS:6:SCREEN:1", out'[EXT])
                = Count("cfg", arrivedTags')
          /\ \A k \in 1..Len(out'[EXT]) :
                out'[EXT][k] \in {"CONFIG:SLIDERS:4:BUTTONS:6:SCREEN:1",
                                  "DeskMixer Controller Ready"}]_vars

\* GET_CONFIG answered in an iteration after unknown lines, a handshake
\* and a sampling pass; INO, which does not know the request, is silent
C13_Witness ==
    /\ pc = "readCurrentValues"
    /\ arrivedTags = <<"cfg">>
    /\ unknownSeen = 2 /\ hsSent[EXT] = 1
    /\ sampled = [i \in Sliders |-> <<512, 1023, 7, 0>>[i + 1]]
    /\ out[EXT] = <<"CONFIG:SLIDERS:4:BUTTONS:6:SCREEN:1">>
    /\ out[INO] = <<>>

\* the tags of the lines sketch f does not recognize
Unrecognized(f) == IF f = EXT THEN {"bad", "near"} ELSE {"bad", "near", "cfg"}
\* the tags of the lines that are requests of sketch f
Recognized(f) == IF f = EXT THEN {"hs", "cfg"} ELSE {"hs"}

\* C14: an iteration that completes only lines that are no request prints
\* nothing in the serial step; the buffer is empty after the terminator of
\* such a line; and after such lines the requests are answered as always,
\* one response for each request line of the iteration.
C14_UnknownLinesIgnored ==
    [][SerialStep =>
          LET arrived == SubSeq(rx, 1, Len(rx) - Len(rx'))
          IN  \A f \in Firmware :
                /\ (\A k \in 1..Len(arrivedTags') : arrivedTags'[k] \notin Recognized(f))
                      => out'[f] = <<>>
                /\ (arrived # <<>> /\ arrived[Len(arrived)].t \in Unrecognized(f))
                      => inputBuffer'[f] = <<>>
                /\ unknownSeen' > 0
                      => /\ Count("DeskMixer Controller Ready", out'[f])
                               = Count("hs", arrivedTags')
                         /\ Len(out'[f]) = Cardinality({k \in 1..Len(arrivedTags') :
                                                arrivedTags'[k] \in Recognized(f)})]_vars

\* the handshake request that followed a whitespace-only line and an
\* unknown line is answered by both sketches
C14_Witness ==
    /\ pc = "readCurrentValues"
    /\ unknownSeen = 2
    /\ arrivedTags = <<"hs">>
    /\ out[EXT] = <<"DeskMixer Controller Ready">>
    /\ out[INO] = <<"DeskMixer Controller Ready">>

\* the response to a request line, by its tag
ResponseTo(tag) ==
    IF tag = "hs" THEN "DeskMixer Controller Ready"
    ELSE "CONFIG:SLIDERS:4:BUTTONS:6:SCREEN:1"

\* C15: the serial step prints one response for every line that is a
\* request of the sketch once the whitespace around it is removed, in the
\* order of the lines, and nothing for any other line: not for a request in
\* another letter case, with other whitespace inside, or with one more
\* character.
C15_ExactMatch ==
    [][SerialStep => \A f \in Firmware :
          out'[f] = LET asked == SelectSeq(arrivedTags', LAMBDA t : t \in Recognized(f))
                    IN  [k \in 1..Len(asked) |-> ResponseTo(asked[k])]]_vars

\* three lines that are nearly a request were read in one iteration, the
\* last one ended the input, and nothing was printed
C15_Witness ==
    /\ pc = "readCurrentValues"
    /\ arrivedTags = <<"near", "near", "near">>
    /\ rx = <<>>
    /\ inputBuffer[EXT] = <<>> /\ inputBuffer[INO] = <<>>
    /\ out[EXT] = <<>> /\ out[INO] = <<>>

\* the lines of the wire protocol of sketch f
WireLines(f) ==
    {"DeskMixer Controller Ready"}
        \cup (IF f = EXT THEN {"CONFIG:SLIDERS:4:BUTTONS:6:SCREEN:1"} ELSE {})
        \cup { (IF f = EXT THEN "Button " ELSE "b") \o ToString(n) \o " 1" : n \in 1..NUM_BUTTONS }
        \cup { TelemetryOf(f, v) : v \in AnalogSamples }

\* C16: every line either sketch prints is the handshake response, the
\* GET_CONFIG response (EXT only), a press line with value 1 of a button
\* 1..NUM_BUTTONS, or a telemetry line; no release line, no error line.
C16_OnlyProtocolLines ==
    \A f \in Firmware : \A k \in 1..Len(out[f]) : out[f][k] \in WireLines(f)

\* an iteration that sampled the release of button 3 after a press line:
\* only the telemetry line was printed
C16_Witness ==
    /\ pc = "checkSerialInput" /\ iter >= 1
    /\ pressedBefore[2] /\ ~pressed[2]
    /\ lastPressAt[EXT][2] # Never /\ lastPressAt[INO][2] # Never
    /\ out[EXT] = <<"Slider 1 200|Slider 2 800|Slider 3 0|Slider 4 1023">>
    /\ out[INO] = <<"s1 200|s2 800|s3 0|s4 1023">>

\* the place of a line in the output of an iteration: responses, then
\* press lines, then the telemetry line
Rank(f, line) ==
    IF line \in {"DeskMixer Controller Ready", "CONFIG:SLIDERS:4:BUTTONS:6:SCREEN:1"} THEN 0
    ELSE IF \E i \in Buttons : line \in ButtonLines(f, i) THEN 1
    ELSE 2

\* C17: in the output of an iteration the responses come before the press
\* lines and the press lines before the telemetry line; the sampling step
\* directly follows the serial step of its iteration and reads no serial
\* byte itself, and the serial step follows setup() or a timer check.
C17_IterationOrder ==
    [][ /\ \A f \in Firmware : \A j, k \in 1..Len(out'[f]) :
              j < k => Rank(f, out'[f][j]) <= Rank(f, out'[f][k])
        /\ pc' = "readCurrentValues" => pc = "checkSerialInput"
        /\ pc = "readCurrentValues"
              => (pc' = "checkAndSendButtonEvents" /\ rx' = rx /\ inputBuffer' = inputBuffer)
        /\ pc = "checkAndSendButtonEvents" => pc' = "telemetry"
        /\ pc' = "checkSerialInput" => pc \in {"setup", "telemetry"} ]_vars

\* an iteration that printed a response, a press line and the telemetry
\* line, in this order
C17_Witness ==
    /\ pc = "checkSerialInput"
    /\ out[EXT] = << "CONFIG:SLIDERS:4:BUTTONS:6:SCREEN:1", "Button 3 1",
                     "Slider 1 200|Slider 2 800|Slider 3 0|Slider 4 1023" >>
    /\ out[INO] = << "b3 1", "s1 200|s2 800|s3 0|s4 1023" >>

\* C18: inputBuffer holds neither CR nor LF in any state; when the last
\* byte read is a CR or LF the buffer is empty, and otherwise it holds the
\* bytes received since the last CR or LF.
C18_BufferHasNoTerminator ==
    [][\A f \in Firmware :
          /\ \A k \in 1..Len(inputBuffer[f]) : inputBuffer[f][k] \notin {CR, LF}
          /\ \A k \in 1..Len(inputBuffer'[f]) : inputBuffer'[f][k] \notin {CR, LF}
          /\ SerialStep =>
                LET arrived == SubSeq(rx, 1, Len(rx) - Len(rx'))
                    bytes == [k \in 1..Len(arrived) |-> arrived[k].c]
                IN  /\ (bytes # <<>> /\ bytes[Len(bytes)] \in {CR, LF})
                          => inputBuffer'[f] = <<>>
                    /\ inputBuffer'[f] = AfterLastTerminator(inputBuffer[f] \o bytes)]_vars

\* the CR that ends the request was the last byte read: the request is
\* answered and the buffer is empty, the LF is still to come
C18_Witness ==
    /\ pc = "readCurrentValues"
    /\ arrivedTags = <<"hs">>
    /\ Len(rx) = 2 /\ rx[1].c = LF
    /\ inputBuffer[EXT] = <<>> /\ inputBuffer[INO] = <<>>
    /\ out[EXT] = <<"DeskMixer Controller Ready">>

\* C19: either sketch prints a press line of a button only in an iteration
\* that samples it pressed after the iteration before sampled it not
\* pressed, never while the button stays pressed from one iteration to the
\* next, so that a pressed run has at most one press line however long it
\* lasts.
C19_ReleaseBetweenPresses ==
    [][ButtonStep => \A f \in Firmware, i \in Buttons :
          /\ IsIn(PressLine(f, i), NewLines(f)) => (pressed[i] /\ ~pressedBefore[i])
          /\ (pressed[i] /\ pressedBefore[i]) => Count(PressLine(f, i), NewLines(f)) = 0
          /\ runPresses'[f][i] <= 1]_vars

\* button 3 is still held more than DEBOUNCE_MS after its press line: the
\* run has its one press line in both sketches, this pass printed nothing
C19_Witness ==
    /\ pc = "telemetry"
    /\ pressed[2] /\ pressedBefore[2]
    /\ lastPressAt[EXT][2] # Never
    /\ Gt32(Sub32(clock, lastPressAt[EXT][2]), DEBOUNCE_MS)
    /\ runPresses[EXT][2] = 1 /\ runPresses[INO][2] = 1
    /\ out[EXT] = <<>> /\ out[INO] = <<>>

\* C20: a second run with the same clock readings and other analog
\* readings prints a telemetry line in exactly the iterations in which the
\* first run prints one, and its lastSendTime is the same at all times.
C20_TelemetryIgnoresValues ==
    \A f \in Firmware :
        /\ shadowLastSendTime[f] = lastSendTime[f]
        /\ shadowSent[f] = CountIn({TelemetryOf(f, v) : v \in AnalogSamples}, out[f])

\* an iteration in which the run that read 200, 800, 0, 1023 and the run
\* that read 512, 1023, 7, 0 both printed their telemetry line
C20_Witness ==
    /\ pc = "checkSerialInput" /\ iter >= 1
    /\ sampled = [i \in Sliders |-> <<200, 800, 0, 1023>>[i + 1]]
    /\ out[EXT] = <<"Slider 1 200|Slider 2 800|Slider 3 0|Slider 4 1023">>
    /\ shadowSent[EXT] = 1 /\ shadowSent[INO] = 1
    /\ sinceTelemetry[EXT] = U32(SEND_INTERVAL_MS)

\* a sample as the sketches store it: 1 pressed, 0 not pressed
AsInt(b) == IF b THEN 1 ELSE 0

\* C21: when the button pass starts, previousButtonValues holds for every
\* button the sample of the iteration before (not pressed in the first
\* iteration); the pass leaves in it the sample of this iteration, whether
\* it printed a press line, suppressed the edge or saw none; no other step
\* writes it.
C21_PreviousIsLastSample ==
    [][ /\ ButtonStep => \A f \in Firmware, i \in Buttons :
              /\ previousButtonValues[f][i] = AsInt(pressedBefore[i])
              /\ previousButtonValues'[f][i] = AsInt(pressed[i])
        /\ ~ButtonStep => previousButtonValues' = previousButtonValues ]_vars

\* the rising edge of button 3 was suppressed 5 ms after its press line:
\* the pass has printed nothing and has recorded the pressed sample
C21_Witness ==
    /\ pc = "telemetry"
    /\ pressed[2] /\ ~pressedBefore[2]
    /\ lastPressAt[EXT][2] # Never /\ lastPressAt[EXT][2] # clock
    /\ out[EXT] = <<>>
    /\ previousButtonValues[EXT][2] = 1 /\ previousButtonValues[INO][2] = 1

C23_DrainsAllAvailable ==
    [][SerialStep =>
          LET arrived == SubSeq(rx, 1, Len(rx) - Len(rx'))
              bytes == [k \in 1..Len(arrived) |-> arrived[k].c]
              ended == SelectSeq(arrived, LAMBDA b : b.t # "")
          IN  \A f \in Firmware :
                /\ arrivedTags' = [k \in 1..Len(ended) |-> ended[k].t]
                /\ out'[f] = LET asked == SelectSeq(ended, LAMBDA b : b.t \in Recognized(f))
                              IN  [k \in 1..Len(asked) |-> ResponseTo(asked[k].t)]
                /\ inputBuffer'[f] = AfterLastTerminator(inputBuffer[f] \o bytes)
                /\ (inputBuffer[f] # <<>> /\ ended # <<>> /\ ended[1].t \in Recognized(f))
                      => out'[f] # <<>> /\ out'[f][1] = ResponseTo(ended[1].t)]_vars

\* two request lines were completed in one iteration, after two lines
\* that are no request: EXT has answered both, in their order
C23_Witness ==
    /\ pc = "readCurrentValues"
    /\ arrivedTags = <<"hs", "cfg">>
    /\ hsSeen = 1 /\ unknownSeen = 2
    /\ out[EXT] = <<"DeskMixer Controller Ready", "CONFIG:SLIDERS:4:BUTTONS:6:SCREEN:1">>
    /\ out[INO] = <<"DeskMixer Controller Ready">>

\* C24: the loop goes on for ever: the serial step is reached again and
\* again, whatever lines, readings and clock values came before, and every
\* iteration that starts reaches its timer check.
C24_LoopNeverHalts ==
    /\ []<>(pc = "checkSerialInput")
    /\ [](pc = "checkSerialInput" => <>(pc = "telemetry"))

\* the input is exhausted, with an unknown line in it, the clock has
\* reached the end of the span, and the loop is at its timer check again
C24_Witness ==
    /\ pc = "telemetry" /\ iter = MaxIter
    /\ rx = <<>> /\ unknownSeen = 1 /\ inputBuffer[EXT] = <<>>
    /\ clock = horizon

\* C25: whether a button pass prints the press line of button i follows
\* from the sample, the previous state and (in EXT) the timestamp of button
\* i alone; the pass leaves for every button its own sample as previous
\* state and changes the timestamp of exactly the buttons it reports; the
\* press lines of one pass are in ascending order of the buttons.
C25_ChannelsIndependent ==
    [][ButtonStep => \A f \in Firmware :
          LET qualifying == { i \in Buttons :
                  /\ buttonValues[f][i] = 1 /\ previousButtonValues[f][i] = 0
                  /\ f = EXT => Gt32(Sub32(clock', lastButtonChange[i]), DEBOUNCE_MS) }
              ascending == SelectSeq([k \in 1..NUM_BUTTONS |-> k - 1],
                                     LAMBDA i : i \in qualifying)
          IN  /\ NewLines(f) = [k \in 1..Len(ascending) |->
                      (IF f = EXT THEN "Button " ELSE "b")
                          \o ToString(ascending[k] + 1) \o " 1"]
              /\ \A i \in Buttons : previousButtonValues'[f][i] = buttonValues[f][i]
              /\ f = EXT => \A i \in Buttons :
                    lastButtonChange'[i] =
                        IF i \in qualifying THEN clock' ELSE lastButtonChange[i]]_vars

\* buttons 3 and 4 went down in the same iteration, button 3 within the
\* window of its last press line and button 4 for the first time: EXT
\* reports button 4 alone, INO both, in ascending order
C25_Witness ==
    /\ pc = "telemetry"
    /\ pressed[2] /\ ~pressedBefore[2] /\ pressed[3] /\ ~pressedBefore[3]
    /\ out[EXT] = <<"Button 4 1">>
    /\ out[INO] = <<"b3 1", "b4 1">>
    /\ lastButtonChange[3] = clock /\ lastButtonChange[2] # clock

\* C26: the serial step writes inputBuffer only; the sampling step writes
\* analogSliderValues and buttonValues only; the button pass writes
\* previousButtonValues and lastButtonChange only; the timer check writes
\* lastSendTime only.
C26_StepsWriteOwnState ==
    [][ /\ SerialStep =>
              UNCHANGED << analogSliderValues, buttonValues, previousButtonValues,
                           lastButtonChange, lastSendTime >>
        /\ (pc = "readCurrentValues") =>
              UNCHANGED << inputBuffer, previousButtonValues, lastButtonChange,
                           lastSendTime >>
        /\ ButtonStep =>
              UNCHANGED << inputBuffer, analogSliderValues, buttonValues, lastSendTime >>
        /\ TelemetryStep =>
              UNCHANGED << inputBuffer, analogSliderValues, buttonValues,
                           previousButtonValues, lastButtonChange >> ]_vars

\* an iteration in which every step wrote its own state: part of a line is
\* in inputBuffer, the readings are stored, the press of button 3 is
\* recorded with its time, and the timer check recorded the time of its line
C26_Witness ==
    /\ pc = "checkSerialInput" /\ iter >= 1
    /\ inputBuffer[EXT] = <<"G", "E", "T">>
    /\ analogSliderValues[EXT] = [i \in Sliders |-> <<512, 1023, 7, 0>>[i + 1]]
    /\ buttonValues[EXT][2] = 1 /\ previousButtonValues[EXT][2] = 1
    /\ lastButtonChange[2] # U32(0)
    /\ lastSendTime[EXT] = clock
    /\ out[EXT] = <<"Button 3 1", "Slider 1 512|Slider 2 1023|Slider 3 7|Slider 4 0">>

Spec == Init /\ [][Next]_vars
\* the processor keeps executing: a step that can be taken is taken
LiveSpec == InitLive /\ [][Next]_vars /\ WF_vars(Next)
SpecNoSliders == InitNoSliders /\ [][Next]_vars
(***************************************************************************)
(* C28: the elapsed-time checks stay correct across the wrap of millis().  *)
(* In a run that continues across the wrap, a timer check prints the       *)
(* telemetry line exactly when 10 ms or more have truly passed since the   *)
(* last telemetry line, and a rising edge of a button that has an accepted *)
(* press is reported by part_000 exactly when more than 10 ms have truly   *)
(* passed since that press; uptime counts the true time, without wrapping. *)
(***************************************************************************)
C28_ElapsedAcrossWrap ==
    [][/\ TelemetryStep =>
            \A f \in Firmware :
                sentAtUptime[f] # -1 =>
                    CountIn(TelemetryLines(f), NewLines(f))
                        = IF uptime' - sentAtUptime[f] >= SEND_INTERVAL_MS THEN 1 ELSE 0
       /\ ButtonStep =>
            \A i \in Buttons :
                pressAtUptime[EXT][i] # -1 =>
                    (IsIn(eventString(i), NewLines(EXT))
                        <=> /\ pressed[i] /\ ~pressedBefore[i]
                            /\ uptime' - pressAtUptime[EXT][i] > DEBOUNCE_MS)]_vars
\* the counter has wrapped; 10 ms after the press and the telemetry line made
\* WrapLead ms before the wrap, button 3 was read pressed again and not
\* reported, and the timer check of the same iteration printed a telemetry line
C28_Witness ==
    /\ pc = "checkSerialInput"
    /\ clock = U32(SEND_INTERVAL_MS - WrapLead)
    /\ uptime = SEND_INTERVAL_MS
    /\ pressed[2] /\ ~pressedBefore[2]
    /\ pressAtUptime[EXT][2] = 0
    /\ sentAtUptime[EXT] = uptime /\ sentAtUptime[INO] = uptime
    /\ Len(out[EXT]) = 1 /\ out[EXT][1] \in TelemetryLines(EXT)

(***************************************************************************)
(* C29: a button held down at boot is reported as a press.  In the first   *)
(* iteration of loop(), the button pass of each sketch prints exactly one  *)
(* press line for every button that was read pressed, and the first line   *)
(* on the wire is the handshake line of setup().                           *)
(***************************************************************************)
C29_HeldAtBootReported ==
    [][(ButtonStep /\ iter = 1) =>
            \A f \in Firmware :
                /\ wireHead[f] = HANDSHAKE_RESPONSE
                /\ \A i \in Buttons :
                      /\ Count(PressLine(f, i), NewLines(f)) = (IF pressed[i] THEN 1 ELSE 0)
                      /\ pressed[i] => pressAtUptime'[f][i] >= STARTUP_DELAY_MS]_vars
\* first iteration, as early as it can run: button 3 was read pressed and
\* both sketches have printed its press line, 1000 ms after the clock started
C29_Witness ==
    /\ pc = "telemetry" /\ iter = 1
    /\ clock = U32(STARTUP_DELAY_MS)
    /\ pressed[2] /\ ~pressedBefore[2]
    /\ previousButtonValues[EXT][2] = 1
    /\ lastButtonChange[2] = clock
    /\ out[EXT] = <<"Button 3 1">> /\ out[INO] = <<"b3 1">>
    /\ wireHead[EXT] = HANDSHAKE_RESPONSE

\* a line of DeskMixer.ino with "sN" renamed to "Slider N" and "bN" to "Button N"
RenamedLine(line) ==
    IF \E n \in 1..NUM_BUTTONS : line = "b" \o ToString(n) \o " 1"
    THEN "Button " \o ToString(CHOOSE n \in 1..NUM_BUTTONS : line = "b" \o ToString(n) \o " 1") \o " 1"
    ELSE IF line = "s1 200|s2 800|s3 0|s4 1023"
    THEN "Slider 1 200|Slider 2 800|Slider 3 0|Slider 4 1023"
    ELSE IF line = "s1 512|s2 1023|s3 7|s4 0"
    THEN "Slider 1 512|Slider 2 1023|Slider 3 7|Slider 4 0"
    ELSE line
Renamed(lines) == [k \in 1..Len(lines) |-> RenamedLine(lines[k])]
\* the lines sketch f prints in the step
StepLines(f) == IF pc \in {"setup", "checkSerialInput"} THEN out'[f] ELSE NewLines(f)
\* the step receives the end of a GET_CONFIG line
ConfigArrives ==
    SerialStep /\ CountTag("cfg", SubSeq(rx, 1, Len(rx) - Len(rx'))) > 0
\* the step finds a rising edge 10 ms or less after the last press line that
\* part_000 printed for the same button
EdgeInWindow ==
    ButtonStep /\ \E i \in Buttons :
        /\ pressed[i] /\ ~pressedBefore[i]
        /\ pressAtUptime[EXT][i] # -1
        /\ uptime' - pressAtUptime[EXT][i] <= DEBOUNCE_MS

(***************************************************************************)
(* C30: the two sketches are equivalent up to the labels.  Fed the same    *)
(* bytes, readings and clock, in every step in which no GET_CONFIG line    *)
(* arrives and no rising edge falls within 10 ms of the same button's last *)
(* accepted press, part_000 prints the lines DeskMixer.ino prints, with    *)
(* "sN" renamed to "Slider N" and "bN" to "Button N".                      *)
(***************************************************************************)
C30_SameUpToLabels ==
    [][(~ConfigArrives /\ ~EdgeInWindow) =>
            StepLines(EXT) = Renamed(StepLines(INO))]_vars

SpecWrap == InitWrap /\ [][Next]_vars
====
